---- MODULE Spec2Model ----
(***************************************************************************)
(* A model of @regraf/i18n: LanguageController.middleware (the per-request *)
(* language resolution over the cache-backed translation store) and the    *)
(* Language class (t, getCountSuffix, has, replacePlaceholders).           *)
(*                                                                         *)
(* JavaScript strings are sequences of one-character strings, so that      *)
(* String.prototype.replace, split and join are computed character by      *)
(* character.  JavaScript values are records tagged with their type.       *)
(***************************************************************************)
EXTENDS Integers, Sequences, FiniteSets, TLC

(***************************************************************************)
(* Bounds of the model.                                                    *)
(***************************************************************************)
\* longest candidate array the language resolver returns
MaxCands == 2
\* most pieces a template passed to replacePlaceholders is made of
MaxPieces == 3
\* longest positional placeholder array
MaxArgs == 2
\* most properties of a named placeholder object
MaxKeys == 2
\* largest count passed to getCountSuffix
MaxCount == 35
MaxPreloads == 1

(***************************************************************************)
(* String literals of the source, as character sequences.                  *)
(***************************************************************************)
sZero == <<".", "z", "e", "r", "o">>
sOne == <<".", "o", "n", "e">>
sFew == <<".", "f", "e", "w">>
sMany == <<".", "m", "a", "n", "y">>
sMarker == <<"%", "s">>
sOpen == <<"{", "{">>
sClose == <<"}", "}">>
sCount == <<"c", "o", "u", "n", "t">>

(***************************************************************************)
(* JavaScript values and conversions.                                      *)
(***************************************************************************)
Null == [t |-> "null", s |-> <<>>, n |-> 0]
Undefined == [t |-> "undefined", s |-> <<>>, n |-> 0]
Str(s) == [t |-> "string", s |-> s, n |-> 0]
Num(n) == [t |-> "number", s |-> <<>>, n |-> n]
Infinity == [t |-> "infinity", s |-> <<>>, n |-> 0]
NaN == [t |-> "nan", s |-> <<>>, n |-> 0]

sNull == <<"n", "u", "l", "l">>
sUndefined == <<"u", "n", "d", "e", "f", "i", "n", "e", "d">>
sInfinity == <<"I", "n", "f", "i", "n", "i", "t", "y">>
sNaN == <<"N", "a", "N">>

DigitChar == <<"0", "1", "2", "3", "4", "5", "6", "7", "8", "9">>
IsDigit(c) == \E d \in 1..10 : DigitChar[d] = c
DigitValue(c) == (CHOOSE d \in 1..10 : DigitChar[d] = c) - 1

RECURSIVE NatToString(_)
NatToString(n) ==
    IF n < 10 THEN <<DigitChar[n + 1]>>
    ELSE NatToString(n \div 10) \o <<DigitChar[(n % 10) + 1]>>

RECURSIVE DigitsToNat(_)
DigitsToNat(s) ==
    IF s = <<>> THEN 0
    ELSE DigitsToNat(SubSeq(s, 1, Len(s) - 1)) * 10 + DigitValue(s[Len(s)])

\* Number(string), for strings without white space, sign, point or exponent
StringToNumber(s) ==
    IF s = <<>> THEN Num(0)
    ELSE IF \A i \in 1..Len(s) : IsDigit(s[i]) THEN Num(DigitsToNat(s))
    ELSE IF s = sInfinity THEN Infinity
    ELSE NaN

\* Number(v)
ToNumber(v) ==
    CASE v.t = "null" -> Num(0)
      [] v.t = "undefined" -> NaN
      [] v.t = "string" -> StringToNumber(v.s)
      [] OTHER -> v

\* String(v)
StringOf(v) ==
    CASE v.t = "string" -> v.s
      [] v.t = "number" -> IF v.n < 0 THEN <<"-">> \o NatToString(-v.n)
                           ELSE NatToString(v.n)
      [] v.t = "null" -> sNull
      [] v.t = "undefined" -> sUndefined
      [] v.t = "infinity" -> sInfinity
      [] OTHER -> sNaN

\* isNaN(v)
isNaN(v) == ToNumber(v).t = "nan"

\* a % b for b > 0: the remainder takes the sign of the dividend, and is
\* NaN when the dividend is not finite
Remainder(a, b) ==
    IF a.t # "number" THEN NaN
    ELSE IF a.n >= 0 THEN Num(a.n % b)
    ELSE Num(-((-a.n) % b))

\* String.prototype.indexOf(pat), 1-based; 0 when pat does not occur
IndexOf(s, pat) ==
    LET hits == {i \in 1..(Len(s) - Len(pat) + 1) : SubSeq(s, i, i + Len(pat) - 1) = pat}
    IN  IF hits = {} THEN 0 ELSE CHOOSE i \in hits : \A j \in hits : i <= j

\* the expansion of a replacement string: a dollar sign followed by a dollar
\* sign, an ampersand or a quote is a pattern (so is one followed by a
\* backquote, a character no string of the model holds)
RECURSIVE GetSubstitution(_, _, _, _)
GetSubstitution(repl, matched, before, after) ==
    IF repl = <<>> THEN <<>>
    ELSE IF repl[1] = "$" /\ Len(repl) >= 2 /\ repl[2] \in {"$", "&", "'"}
    THEN (CASE repl[2] = "$" -> <<"$">>
            [] repl[2] = "&" -> matched
            [] OTHER -> after)
         \o GetSubstitution(SubSeq(repl, 3, Len(repl)), matched, before, after)
    ELSE <<repl[1]>> \o GetSubstitution(Tail(repl), matched, before, after)

\* String.prototype.replace(pat, repl) with a string pattern: the first
\* occurrence only
StringReplace(s, pat, repl) ==
    LET i == IndexOf(s, pat)
        before == SubSeq(s, 1, i - 1)
        after == SubSeq(s, i + Len(pat), Len(s))
    IN  IF i = 0 THEN s
        ELSE before \o GetSubstitution(repl, pat, before, after) \o after

\* String.prototype.split(sep) for a non-empty separator
RECURSIVE Split(_, _)
Split(s, sep) ==
    LET i == IndexOf(s, sep)
    IN  IF i = 0 THEN <<s>>
        ELSE <<SubSeq(s, 1, i - 1)>> \o Split(SubSeq(s, i + Len(sep), Len(s)), sep)

\* Array.prototype.join(by) of a non-empty array of strings
RECURSIVE Join(_, _)
Join(parts, by) ==
    IF Len(parts) = 1 THEN parts[1]
    ELSE parts[1] \o by \o Join(Tail(parts), by)

(***************************************************************************)
(* Placeholders: a string array, or an object whose own properties are     *)
(* kept in insertion order, the order in which for-in visits them.         *)
(***************************************************************************)
ArrayOf(items) == [isArray |-> TRUE, items |-> items, entries |-> <<>>]
ObjectOf(entries) == [isArray |-> FALSE, items |-> <<>>, entries |-> entries]

HasProp(ph, key) == \E i \in 1..Len(ph.entries) : ph.entries[i].key = key

\* placeholders[key]
GetProp(ph, key) ==
    IF HasProp(ph, key)
    THEN ph.entries[CHOOSE i \in 1..Len(ph.entries) : ph.entries[i].key = key].value
    ELSE Undefined

\* placeholders[key] = v
SetProp(ph, key, v) ==
    IF HasProp(ph, key)
    THEN [ph EXCEPT !.entries =
             [i \in 1..Len(ph.entries) |->
                 IF ph.entries[i].key = key
                 THEN [key |-> key, value |-> v] ELSE ph.entries[i]]]
    ELSE [ph EXCEPT !.entries = Append(@, [key |-> key, value |-> v])]

(***************************************************************************)
(* class Language                                                          *)
(***************************************************************************)
\* Language.getCountSuffix
getCountSuffix(count) ==
    IF count = Num(0) THEN sZero
    ELSE IF count = Num(11) THEN sMany
    ELSE LET m == Remainder(count, 10)
         IN  CASE m = Num(0) -> sMany
               [] m = Num(1) -> sOne
               [] m \in {Num(2), Num(3), Num(4)} -> sFew
               [] OTHER -> sMany

\* the outcome of a call: a returned value, or a thrown TypeError
Returned(v) == [threw |-> FALSE, value |-> v]
Thrown == [threw |-> TRUE, value |-> Undefined]

\* the template literal that wraps key in double braces
Token(key) == sOpen \o key \o sClose

\* for (let placeholder of placeholders) data = data.replace("%s", placeholder);
\* data.replace throws when data is undefined
RECURSIVE ReplaceEach(_, _)
ReplaceEach(data, items) ==
    IF items = <<>> THEN Returned(data)
    ELSE IF data.t # "string" THEN Thrown
    ELSE ReplaceEach(Str(StringReplace(data.s, sMarker, StringOf(Head(items)))),
                     Tail(items))

\* for (let key in placeholders)
\*     data = data.split(Token(key)).join(String(placeholders[key]));
\* data.split throws when data is undefined
RECURSIVE SplitJoinEach(_, _)
SplitJoinEach(data, entries) ==
    IF entries = <<>> THEN Returned(data)
    ELSE IF data.t # "string" THEN Thrown
    ELSE SplitJoinEach(
             Str(Join(Split(data.s, Token(Head(entries).key)),
                      StringOf(Head(entries).value))),
             Tail(entries))

\* Language.replacePlaceholders
replacePlaceholders(data, placeholders) ==
    IF placeholders.isArray
    THEN ReplaceEach(data, placeholders.items)
    ELSE SplitJoinEach(data, placeholders.entries)

\* this.data[path]
Lookup(table, path) ==
    IF path \in DOMAIN table THEN Str(table[path]) ELSE Undefined

\* Language.t: the outcome, with the path looked up and the placeholders as
\* the call leaves them
t(table, path, placeholders) ==
    LET rewrite == ~placeholders.isArray /\ ~isNaN(GetProp(placeholders, sCount))
        placeholders2 ==
            IF rewrite
            THEN SetProp(placeholders, sCount, ToNumber(GetProp(placeholders, sCount)))
            ELSE placeholders
        path2 ==
            IF rewrite THEN path \o getCountSuffix(GetProp(placeholders2, sCount))
            ELSE path
        out == replacePlaceholders(Lookup(table, path2), placeholders2)
    IN  [threw |-> out.threw, value |-> out.value,
         path |-> path2, placeholders |-> placeholders2]

\* Language.has
has(table, path) == path \in DOMAIN table

(***************************************************************************)
(* The inputs of the calls of Language's methods.                          *)
(***************************************************************************)
sItem == <<"i", "t", "e", "m">>
sWelcome == <<"w", "e", "l", "c", "o", "m", "e">>
sPair == <<"p", "a", "i", "r">>
sMissing == <<"m", "i", "s", "s", "i", "n", "g">>
sName == <<"n", "a", "m", "e">>
sX == <<"x">>
sY == <<"y">>
sNoItems == <<"N", "o", " ", "i", "t", "e", "m", "s">>
sOneItem == <<"O", "n", "e", " ", "i", "t", "e", "m">>
sCountItems == <<"{", "{", "c", "o", "u", "n", "t", "}", "}", " ", "i", "t", "e", "m", "s">>
sWelcomeName == <<"H", "i", " ", "{", "{", "n", "a", "m", "e", "}", "}", "!">>
sPairTemplate == <<"%", "s", " ", "a", "n", "d", " ", "%", "s">>

\* the table of the README and of the tests
ReadmeEntries ==
    (sItem \o sZero) :> sNoItems @@ (sItem \o sOne) :> sOneItem
        @@ (sItem \o sFew) :> sCountItems @@ (sItem \o sMany) :> sCountItems
        @@ sWelcome :> sWelcomeName @@ sPair :> sPairTemplate

\* a table with the plain key only, without the suffixed ones
PlainEntries == sItem :> sCountItems @@ sPair :> sPairTemplate

LanguageTables == {<<>>, ReadmeEntries, PlainEntries}
Paths == {sItem, sWelcome, sPair, sMissing}

\* the sequences over S of length at most n
SeqsUpTo(S, n) == UNION {[1..k -> S] : k \in 0..n}

\* the strings made of at most n of the pieces
RECURSIVE Concats(_, _)
Concats(pieces, n) ==
    IF n = 0 THEN {<<>>}
    ELSE LET shorter == Concats(pieces, n - 1)
         IN  shorter \cup {a \o p : a \in shorter, p \in pieces}

PositionalTemplates == Concats({sMarker, <<"%">>, <<"s">>, <<"a">>}, MaxPieces)
NamedTemplates == Concats({Token(sX), Token(sY), <<"{">>, <<"}">>, <<"a">>}, MaxPieces)

ArrayValues == {Str(<<"A">>), Str(<<"B">>), Str(sMarker), Str(<<"$", "&">>)}
Arrays == {ArrayOf(items) : items \in SeqsUpTo(ArrayValues, MaxArgs)}

\* objects of at most MaxKeys properties, in every insertion order
Objects(keys, values) ==
    {ObjectOf(e) : e \in
        {e \in SeqsUpTo([key : keys, value : values], MaxKeys) :
            \A i, j \in 1..Len(e) : e[i].key = e[j].key => i = j}}

NamedValues == {Str(<<"A">>), Str(Token(sX)), Str(Token(sY)), Num(1), Null}
NamedObjects == Objects({sX, sY}, NamedValues)

CountValues ==
    {Num(0), Num(1), Num(3), Num(10), Num(11), Null, Infinity,
     Str(<<"5">>), Str(<<"a", "b">>), Str(<<"A">>)}
CountObjects == Objects({sCount, sName}, CountValues)

True == [t |-> "boolean", s |-> <<>>, n |-> 1]
False == [t |-> "boolean", s |-> <<>>, n |-> 0]

\* no method of the Language has been called yet
NoCall ==
    [op |-> "none", path |-> <<>>, count |-> Undefined, template |-> <<>>,
     placeholders |-> ArrayOf(<<>>), threw |-> FALSE, value |-> Undefined,
     finalPath |-> <<>>, finalPlaceholders |-> ArrayOf(<<>>)]


(***************************************************************************)
(* The translation store: LanguageController.cache.                        *)
(***************************************************************************)
\* language identifiers
LanguageCodes == {"en", "fr", "es"}

\* what cache.get(key) can resolve to: a table (an object, possibly the
\* empty object of the default loader) or nothing (null, as in the tests)
NoData == [kind |-> "null", entries |-> <<>>]
Table(entries) == [kind |-> "object", entries |-> entries]
EmptyTable == Table(<<>>)
sGreeting == <<"g", "r", "e", "e", "t", "i", "n", "g">>
sHello == <<"H", "e", "l", "l", "o">>
sHola == <<"H", "o", "l", "a">>
HelloTable == Table(sGreeting :> sHello)
HolaTable == Table(sGreeting :> sHola)
CacheValues == {NoData, EmptyTable, HelloTable, HolaTable}

\* what the language resolver can return: a string or an array of strings
ResolverString(s) == [isArray |-> FALSE, str |-> s, arr |-> <<>>]
ResolverArray(a) == [isArray |-> TRUE, str |-> "", arr |-> a]
ResolverResults ==
    {ResolverString(s) : s \in LanguageCodes}
        \cup {ResolverArray(a) : a \in SeqsUpTo(LanguageCodes, MaxCands)}

\* the requests whose middleware runs are modelled
Requests == {"r1"}

\* the requests whose middleware runs are in flight together
ConcurrentRequests == {"r1", "r2"}

\* what the store holds when several requests are served from it
SharedCacheValues == {NoData, HelloTable, HolaTable}

\* ---- the files preloadLanguages reads ----

sEn == <<"e", "n">>
sFr == <<"f", "r">>
sEs == <<"e", "s">>
sSlash == <<"/">>
sDotJson == <<".", "j", "s", "o", "n">>
sLocales == <<"l", "o", "c", "a", "l", "e", "s">>
sEnJson == <<"e", "n", ".", "j", "s", "o", "n">>
sNotesTxt == <<"n", "o", "t", "e", "s", ".", "t", "x", "t">>
sSub == <<"s", "u", "b">>
sEsJson == <<"e", "s", ".", "j", "s", "o", "n">>
sNowhere == <<"n", "o", "w", "h", "e", "r", "e">>

\* the path of a directory entry, as the recursive call builds it
PathJoin(folderOrFile, file) == folderOrFile \o sSlash \o file

\* String.prototype.endsWith
EndsWith(str, suffix) ==
    /\ Len(str) >= Len(suffix)
    /\ SubSeq(str, Len(str) - Len(suffix) + 1, Len(str)) = suffix

\* a directory with its entries in readdirSync order, and a file with what
\* JSON.parse makes of its content
Directory(entries) == [isDirectory |-> TRUE, entries |-> entries, parsed |-> NoData]
File(parsed) == [isDirectory |-> FALSE, entries |-> <<>>, parsed |-> parsed]

\* the README's locales/ with en.json, beside a file that is not JSON and a
\* nested directory, and an en.json in the working directory
FileSystem ==
    (sLocales :> Directory(<<sEnJson, sNotesTxt, sSub>>))
        @@ (PathJoin(sLocales, sEnJson) :> File(HelloTable))
        @@ (PathJoin(sLocales, sNotesTxt) :> File(NoData))
        @@ (PathJoin(sLocales, sSub) :> Directory(<<sEsJson>>))
        @@ (PathJoin(PathJoin(sLocales, sSub), sEsJson) :> File(HolaTable))
        @@ (sEnJson :> File(HelloTable))

\* the paths preloadLanguages is called with, one of which does not exist
PreloadPaths == DOMAIN FileSystem \cup {sNowhere}

\* the language codes the resolver returns, as the strings they are
PreloadLanguageCodes == {sEn, sFr, sEs}

\* the keys the store is asked for or written under
PreloadKeys ==
    PreloadLanguageCodes \cup {path \in DOMAIN FileSystem : ~FileSystem[path].isDirectory}

\* what the loader resolves to for a key never set: the default loader's
\* empty object, or nothing from a loader without data for a language
LoaderResults ==
    {[k \in PreloadKeys |-> IF k \in PreloadLanguageCodes THEN byCode[k] ELSE EmptyTable] :
        byCode \in [PreloadLanguageCodes -> {EmptyTable, NoData}]}

PreloadResolverResults ==
    {[isArray |-> FALSE, str |-> code, arr |-> <<>>] : code \in PreloadLanguageCodes}
        \cup {[isArray |-> TRUE, str |-> <<>>, arr |-> a] :
                  a \in SeqsUpTo(PreloadLanguageCodes, MaxCands)}

\* ctx.lang before the middleware has assigned it
NoLang == [set |-> FALSE, languageCode |-> "", data |-> NoData]

VARIABLES
    cache,              \* key -> what cache.get(key) resolves to
    fallbackLanguage,   \* LanguageController.fallbackLanguage
    pc,                 \* request -> where its middleware run stands
    languages,          \* request -> the normalised candidate array
    idx,                \* request -> position of the for-of loop (1-based)
    ctxLang,            \* request -> ctx.lang
    cacheGets,          \* request -> keys passed to cache.get, in call order
    nextCalls,          \* request -> ctx.lang as seen by each call of next()
    langRef,            \* request -> which Language object ctx.lang refers to
    allocated,          \* how many Language objects have been constructed
    preloadCalls,       \* the paths preloadLanguages has been called with
    seenPreloads,       \* request -> how many of those calls preceded its run
    thisData,           \* this.data of the Language whose methods are called
    call                \* the call made on that Language, with its outcome

vars == <<cache, fallbackLanguage, pc, languages, idx, ctxLang, cacheGets, nextCalls,
          langRef, allocated, preloadCalls, seenPreloads, thisData, call>>
controllerVars == <<cache, fallbackLanguage, pc, languages, idx, ctxLang, cacheGets,
                    nextCalls, langRef, allocated, preloadCalls, seenPreloads>>
heapVars == <<langRef, allocated>>
preloadVars == <<preloadCalls, seenPreloads>>
languageVars == <<thisData, call>>

(***************************************************************************)
(* Language.constructor                                                    *)
(***************************************************************************)
NewLanguage(languageCode, data) ==
    [set |-> TRUE, languageCode |-> languageCode, data |-> data]

(***************************************************************************)
(* LanguageController.middleware                                           *)
(***************************************************************************)
\* !languageData is false for every object, the empty one included
ToBoolean(v) == v.kind = "object"

\* if(!Array.isArray(languages)) languages = [languages];
Normalise(l) == IF l.isArray THEN l.arr ELSE <<l.str>>

\* a loop that steps over the candidate after a miss
NextIndexSkipping(i) == i + 2

\* the for-of loop moves on to the following candidate
NextIndex(i) == i + 1

\* Control reaches the head of the for-of loop at position i: either the
\* next cache.get(language) is issued and the run suspends on it, or the
\* loop is over and cache.get(fallbackLanguage) is issued.
EnterLoop(r, langs, i) ==
    IF i <= Len(langs)
    THEN /\ pc' = [pc EXCEPT ![r] = "awaitGet"]
         /\ idx' = [idx EXCEPT ![r] = i]
         /\ cacheGets' = [cacheGets EXCEPT ![r] = Append(@, langs[i])]
    ELSE /\ pc' = [pc EXCEPT ![r] = "awaitFallback"]
         /\ idx' = [idx EXCEPT ![r] = i]
         /\ cacheGets' = [cacheGets EXCEPT ![r] = Append(@, fallbackLanguage)]

\* next() called before ctx.lang is assigned
ProceedThenBind(r, code, data) ==
    /\ nextCalls' = [nextCalls EXCEPT ![r] = Append(@, ctxLang[r])]
    /\ ctxLang' = [ctxLang EXCEPT ![r] = NewLanguage(code, data)]
    /\ allocated' = allocated + 1
    /\ langRef' = [langRef EXCEPT ![r] = allocated + 1]
    /\ pc' = [pc EXCEPT ![r] = "awaitNext"]

\* a controller that keeps one Language object and re-initialises it for
\* every request: whoever holds it sees the latest binding
BindSharedLanguage(r, code, data) ==
    /\ ctxLang' = [q \in DOMAIN ctxLang |->
                      IF q = r \/ ctxLang[q].set THEN NewLanguage(code, data)
                                                 ELSE ctxLang[q]]
    /\ allocated' = 1
    /\ langRef' = [langRef EXCEPT ![r] = 1]
    /\ nextCalls' = [nextCalls EXCEPT ![r] = Append(@, NewLanguage(code, data))]
    /\ pc' = [pc EXCEPT ![r] = "awaitNext"]

\* ctx.lang = new Language(code, data); return await next();
\* new constructs an object of its own, numbered in order of construction;
\* nextCalls records ctx.lang as the downstream handler finds it
BindAndProceed(r, code, data) ==
    /\ ctxLang' = [ctxLang EXCEPT ![r] = NewLanguage(code, data)]
    /\ allocated' = allocated + 1
    /\ langRef' = [langRef EXCEPT ![r] = allocated + 1]
    /\ nextCalls' = [nextCalls EXCEPT ![r] = Append(@, ctxLang'[r])]
    /\ pc' = [pc EXCEPT ![r] = "awaitNext"]

\* middleware(ctx, next) is called: the resolver runs and returns one of
\* results, its result is normalised, and the run suspends on its first
\* cache.get
MiddlewareFrom(r, results) ==
    /\ pc[r] = "idle"
    /\ \E res \in results :
          /\ languages' = [languages EXCEPT ![r] = Normalise(res)]
          /\ EnterLoop(r, Normalise(res), 1)
    /\ seenPreloads' = [seenPreloads EXCEPT ![r] = Len(preloadCalls)]
    /\ UNCHANGED <<cache, fallbackLanguage, ctxLang, nextCalls, heapVars, preloadCalls,
                   languageVars>>

Middleware(r) == MiddlewareFrom(r, ResolverResults)

\* await this.cache.get(language) resolves
ResumeCandidate(r) ==
    /\ pc[r] = "awaitGet"
    /\ LET language == languages[r][idx[r]]
           languageData == cache[language]
       IN  IF ~ToBoolean(languageData)
           THEN /\ EnterLoop(r, languages[r], NextIndex(idx[r]))
                /\ UNCHANGED <<ctxLang, nextCalls, heapVars>>
           ELSE /\ BindAndProceed(r, language, languageData)
                /\ UNCHANGED <<idx, cacheGets>>
    /\ UNCHANGED <<cache, fallbackLanguage, languages, preloadVars, languageVars>>

\* a fallback bound with an empty table instead of the store's answer
ResumeFallbackEmpty(r) ==
    /\ pc[r] = "awaitFallback"
    /\ BindAndProceed(r, fallbackLanguage, EmptyTable)
    /\ UNCHANGED <<cache, fallbackLanguage, languages, idx, cacheGets, preloadVars,
                   languageVars>>

\* await this.cache.get(this.fallbackLanguage) resolves
ResumeFallback(r) ==
    /\ pc[r] = "awaitFallback"
    /\ BindAndProceed(r, fallbackLanguage, cache[fallbackLanguage])
    /\ UNCHANGED <<cache, fallbackLanguage, languages, idx, cacheGets, preloadVars,
                   languageVars>>

\* await next() resolves and middleware returns
NextReturns(r) ==
    /\ pc[r] = "awaitNext"
    /\ pc' = [pc EXCEPT ![r] = "done"]
    /\ UNCHANGED <<cache, fallbackLanguage, languages, idx, ctxLang, cacheGets, nextCalls,
                   heapVars, preloadVars, languageVars>>

\* preloadLanguages(folderOrFile), as the store it leaves: nothing for a
\* path that does not exist, each entry in turn for a directory, and for a
\* file whose name ends in .json a cache.set under the path of the file
RECURSIVE preloadLanguages(_, _)
RECURSIVE PreloadEntries(_, _, _, _)
PreloadEntries(store, folder, entries, i) ==
    IF i > Len(entries)
    THEN store
    ELSE PreloadEntries(preloadLanguages(store, PathJoin(folder, entries[i])),
                        folder, entries, i + 1)

preloadLanguages(store, folderOrFile) ==
    IF folderOrFile \notin DOMAIN FileSystem
    THEN store
    ELSE IF FileSystem[folderOrFile].isDirectory
         THEN PreloadEntries(store, folderOrFile, FileSystem[folderOrFile].entries, 1)
         ELSE IF EndsWith(folderOrFile, sDotJson)
              THEN (folderOrFile :> FileSystem[folderOrFile].parsed) @@ store
              ELSE store

\* the application calls preloadLanguages; the call is synchronous, so it
\* is one step between the steps of the runs
Preload ==
    /\ Len(preloadCalls) < MaxPreloads
    /\ \E folderOrFile \in PreloadPaths :
          /\ cache' = preloadLanguages(cache, folderOrFile)
          /\ preloadCalls' = Append(preloadCalls, folderOrFile)
    /\ UNCHANGED <<fallbackLanguage, pc, languages, idx, ctxLang, cacheGets, nextCalls,
                   heapVars, seenPreloads, languageVars>>

(***************************************************************************)
(* Calls of the methods of a Language.  The Language is constructed once   *)
(* and one call is made on it; no method changes the Language.             *)
(***************************************************************************)
CallT ==
    /\ call.op = "none"
    /\ \E path \in Paths, placeholders \in Arrays \cup CountObjects :
          LET out == t(thisData, path, placeholders)
          IN  call' = [NoCall EXCEPT !.op = "t", !.path = path,
                                     !.placeholders = placeholders,
                                     !.threw = out.threw, !.value = out.value,
                                     !.finalPath = out.path,
                                     !.finalPlaceholders = out.placeholders]
    /\ UNCHANGED <<thisData, controllerVars>>

CallGetCountSuffix ==
    /\ call.op = "none"
    /\ \E count \in 0..MaxCount :
          call' = [NoCall EXCEPT !.op = "getCountSuffix", !.count = Num(count),
                                 !.value = Str(getCountSuffix(Num(count)))]
    /\ UNCHANGED <<thisData, controllerVars>>

CallHas ==
    /\ call.op = "none"
    /\ \E path \in Paths :
          call' = [NoCall EXCEPT !.op = "has", !.path = path,
                                 !.value = IF has(thisData, path) THEN True ELSE False]
    /\ UNCHANGED <<thisData, controllerVars>>

CallReplacePlaceholders ==
    /\ call.op = "none"
    /\ \E args \in (PositionalTemplates \X Arrays) \cup (NamedTemplates \X NamedObjects) :
          LET out == replacePlaceholders(Str(args[1]), args[2])
          IN  call' = [NoCall EXCEPT !.op = "replacePlaceholders",
                                     !.template = args[1],
                                     !.placeholders = args[2],
                                     !.threw = out.threw, !.value = out.value]
    /\ UNCHANGED <<thisData, controllerVars>>

(***************************************************************************)
(* Specifications.                                                         *)
(***************************************************************************)
\* the requests reqs before their middleware runs, no Language constructed
\* and nothing preloaded yet
IdleOver(reqs) ==
    /\ pc = [r \in reqs |-> "idle"]
    /\ languages = [r \in reqs |-> <<>>]
    /\ idx = [r \in reqs |-> 0]
    /\ ctxLang = [r \in reqs |-> NoLang]
    /\ cacheGets = [r \in reqs |-> <<>>]
    /\ nextCalls = [r \in reqs |-> <<>>]
    /\ langRef = [r \in reqs |-> 0]
    /\ allocated = 0
    /\ preloadCalls = <<>>
    /\ seenPreloads = [r \in reqs |-> 0]

IdleRequests == IdleOver(Requests)

\* a controller over any store content and any fallback language, and the
\* requests it is about to serve
Init ==
    /\ cache \in [LanguageCodes -> CacheValues]
    /\ fallbackLanguage \in LanguageCodes
    /\ IdleRequests
    /\ thisData = <<>>
    /\ call = NoCall

Next ==
    \E r \in Requests :
        \/ Middleware(r)
        \/ ResumeCandidate(r)
        \/ ResumeFallback(r)
        \/ NextReturns(r)

Spec == Init /\ [][Next]_vars

\* a controller over a store that no step changes, serving two requests
\* whose runs suspend at every await and resume in any order
InitConcurrent ==
    /\ cache \in [LanguageCodes -> SharedCacheValues]
    /\ fallbackLanguage \in LanguageCodes
    /\ IdleOver(ConcurrentRequests)
    /\ thisData = <<>>
    /\ call = NoCall

NextConcurrent ==
    \E r \in ConcurrentRequests :
        \/ Middleware(r)
        \/ ResumeCandidate(r)
        \/ ResumeFallback(r)
        \/ NextReturns(r)

SpecConcurrent == InitConcurrent /\ [][NextConcurrent]_vars

\* a controller whose store starts with nothing set, so that every key
\* resolves to what the loader gives, an application that preloads from
\* the file system, and the requests it serves before or after that
InitPreload ==
    /\ cache \in LoaderResults
    /\ fallbackLanguage \in PreloadLanguageCodes
    /\ IdleRequests
    /\ thisData = <<>>
    /\ call = NoCall

NextPreload ==
    \/ Preload
    \/ \E r \in Requests :
          \/ MiddlewareFrom(r, PreloadResolverResults)
          \/ ResumeCandidate(r)
          \/ ResumeFallback(r)
          \/ NextReturns(r)

SpecPreload == InitPreload /\ [][NextPreload]_vars

\* a Language constructed over any of the tables, beside a controller with
\* the default loader and the default fallback language that serves nothing
InitLanguage ==
    /\ cache = [k \in LanguageCodes |-> EmptyTable]
    /\ fallbackLanguage = "en"
    /\ IdleRequests
    /\ thisData \in LanguageTables
    /\ call = NoCall

NextLanguage ==
    \/ CallT
    \/ CallGetCountSuffix
    \/ CallHas
    \/ CallReplacePlaceholders

SpecLanguage == InitLanguage /\ [][NextLanguage]_vars

(***************************************************************************)
(* Claims about LanguageController.middleware, checked under Spec.         *)
(***************************************************************************)
\* the run of r has assigned ctx.lang and called next()
Resolved(r) == pc[r] \in {"awaitNext", "done"}

\* the store returned a table, empty or not, rather than nothing
Present(v) == v # NoData

\* the store returned a table with at least one entry
NonEmpty(v) == v.kind = "object" /\ DOMAIN v.entries # {}

\* position k is the first of langs whose store value satisfies P
FirstPresentAt(langs, k) ==
    /\ Present(cache[langs[k]])
    /\ \A j \in 1..(k - 1) : ~Present(cache[langs[j]])

FirstNonEmptyAt(langs, k) ==
    /\ NonEmpty(cache[langs[k]])
    /\ \A j \in 1..(k - 1) : ~NonEmpty(cache[langs[j]])

\* C1: once a run has resolved, if some candidate's lookup returns a table
\* (present: a table rather than nothing; the empty table is the subject of
\* C3), ctx.lang carries the first such candidate in list order and its
\* table, and the keys passed to cache.get are exactly the candidates up to
\* and including that one, each once: no later candidate, no fallback.
C1_FirstPresentCandidateBound ==
    \A r \in Requests :
        Resolved(r) =>
            \A k \in 1..Len(languages[r]) :
                FirstPresentAt(languages[r], k) =>
                    /\ ctxLang[r] = [set |-> TRUE,
                                     languageCode |-> languages[r][k],
                                     data |-> cache[languages[r][k]]]
                    /\ cacheGets[r] = SubSeq(languages[r], 1, k)

\* a run that missed on its first candidate and was bound to its second,
\* which is not the fallback
C1_Witness ==
    \E r \in Requests :
        /\ pc[r] = "done"
        /\ Len(languages[r]) = 2
        /\ ~Present(cache[languages[r][1]])
        /\ Present(cache[languages[r][2]])
        /\ languages[r][2] # fallbackLanguage
        /\ ctxLang[r].languageCode = languages[r][2]
        /\ cacheGets[r] = languages[r]

\* C2: once a run has resolved, if no candidate's lookup returned data,
\* ctx.lang is a Language whose languageCode is fallbackLanguage and whose
\* data is what the store returns for fallbackLanguage.
C2_FallbackBound ==
    \A r \in Requests :
        (/\ Resolved(r)
         /\ \A k \in 1..Len(languages[r]) : ~Present(cache[languages[r][k]]))
            => ctxLang[r] = [set |-> TRUE,
                             languageCode |-> fallbackLanguage,
                             data |-> cache[fallbackLanguage]]

\* candidates ["fr"] without data, fallback "es" with the table
\* {greeting: "Hola"}: the run is bound to "es" and that table
C2_Witness ==
    \E r \in Requests :
        /\ pc[r] = "done"
        /\ languages[r] = <<"fr">>
        /\ cache["fr"] = NoData
        /\ fallbackLanguage = "es"
        /\ ctxLang[r] = [set |-> TRUE, languageCode |-> "es", data |-> HolaTable]

\* C3: a candidate whose table is empty is treated as not found: once a run
\* has resolved, ctx.lang carries the first candidate whose table is
\* non-empty, and the fallback when no candidate has a non-empty table.
C3_EmptyTableSkipped ==
    \A r \in Requests :
        Resolved(r) =>
            /\ \A k \in 1..Len(languages[r]) :
                  FirstNonEmptyAt(languages[r], k) =>
                      ctxLang[r] = [set |-> TRUE,
                                    languageCode |-> languages[r][k],
                                    data |-> cache[languages[r][k]]]
            /\ (\A k \in 1..Len(languages[r]) : ~NonEmpty(cache[languages[r][k]]))
                  => ctxLang[r] = [set |-> TRUE,
                                   languageCode |-> fallbackLanguage,
                                   data |-> cache[fallbackLanguage]]

\* C4: next() is called at most once in a run, it has been called exactly
\* once when the run has resolved, and the ctx.lang the downstream handler
\* finds at that call is the assigned Language.
C4_NextOnceAfterBind ==
    \A r \in Requests :
        /\ Len(nextCalls[r]) <= 1
        /\ Resolved(r) <=> Len(nextCalls[r]) = 1
        /\ Len(nextCalls[r]) = 1 =>
              /\ nextCalls[r][1].set
              /\ nextCalls[r][1] = ctxLang[r]

\* a finished run over the empty candidate list, with its one call of next()
C4_Witness ==
    \E r \in Requests :
        /\ pc[r] = "done"
        /\ languages[r] = <<>>
        /\ Len(nextCalls[r]) = 1
        /\ ctxLang[r].set

\* C5: once a run has resolved, ctx.lang is a Language whose table is never
\* null or absent.
C5_TableNeverNull ==
    \A r \in Requests :
        Resolved(r) => ctxLang[r].set /\ ctxLang[r].data # NoData

(***************************************************************************)
(* Claims about the Language class, checked under SpecLanguage.            *)
(***************************************************************************)
\* C6: getCountSuffix(n) is .zero for n = 0, .many for n = 11, .one for
\* n = 1, 21, 31, .few for n = 2, 3, 4, 22, 23, 24, and .many for n = 5..10,
\* 12..20 and 25..30.
C6_CountSuffixTable ==
    call.op = "getCountSuffix" =>
        LET n == call.count.n
            suffix == call.value.s
        IN  /\ n = 0 => suffix = sZero
            /\ n = 11 => suffix = sMany
            /\ n \in {1, 21, 31} => suffix = sOne
            /\ n \in {2, 3, 4, 22, 23, 24} => suffix = sFew
            /\ n \in (5..10) \cup (12..20) \cup (25..30) => suffix = sMany

\* C7: a call of t never throws, whatever the table, the path and the
\* placeholders.
C7_TNeverThrows == call.op = "t" => ~call.threw

\* the template with its i-th marker replaced by the i-th value, scanning
\* the template itself from left to right
RECURSIVE PositionalExpected(_, _)
PositionalExpected(template, values) ==
    IF template = <<>> THEN <<>>
    ELSE IF values # <<>> /\ Len(template) >= 2 /\ SubSeq(template, 1, 2) = sMarker
    THEN Head(values).s \o PositionalExpected(SubSeq(template, 3, Len(template)), Tail(values))
    ELSE <<Head(template)>> \o PositionalExpected(Tail(template), values)

\* C8: in positional mode replacePlaceholders raises no error and returns
\* the template with its i-th %s replaced by the i-th value, for every
\* template and every value sequence; markers beyond the values stay.
C8_PositionalByTemplateOrder ==
    (call.op = "replacePlaceholders" /\ call.placeholders.isArray) =>
        /\ ~call.threw
        /\ call.value = Str(PositionalExpected(call.template, call.placeholders.items))

\* the entry whose token the string starts with, if any
StartsWithToken(str, e) ==
    /\ Len(str) >= Len(Token(e.key))
    /\ SubSeq(str, 1, Len(Token(e.key))) = Token(e.key)

\* the template with every token of a supplied key replaced by the string
\* form of the key's value, scanning the template itself from left to right
RECURSIVE NamedExpected(_, _)
NamedExpected(template, entries) ==
    IF template = <<>> THEN <<>>
    ELSE LET hits == {i \in 1..Len(entries) : StartsWithToken(template, entries[i])}
         IN  IF hits = {}
             THEN <<Head(template)>> \o NamedExpected(Tail(template), entries)
             ELSE LET e == entries[CHOOSE i \in hits : TRUE]
                  IN  StringOf(e.value)
                          \o NamedExpected(
                                 SubSeq(template, Len(Token(e.key)) + 1, Len(template)),
                                 entries)

\* C9: in named mode replacePlaceholders returns the template with every
\* occurrence of the token of every supplied key replaced by the string form
\* of that key's value (null as "null"), everything else left as it is.
C9_NamedEveryTemplateToken ==
    (call.op = "replacePlaceholders" /\ ~call.placeholders.isArray) =>
        /\ ~call.threw
        /\ call.value = Str(NamedExpected(call.template, call.placeholders.entries))

\* the placeholders are a named mapping with a key count whose value parses
\* to a finite number: a number other than an infinite one, or a string of
\* decimal digits (null, a non-numeric string and an infinite value are not)
CountParsesFinite(placeholders) ==
    /\ ~placeholders.isArray
    /\ HasProp(placeholders, sCount)
    /\ LET v == GetProp(placeholders, sCount)
       IN  \/ v.t = "number"
           \/ v.t = "string" /\ v.s # <<>> /\ \A i \in 1..Len(v.s) : IsDigit(v.s[i])

\* C10: t looks up path + getCountSuffix(count) exactly when the
\* placeholders are a named mapping whose count parses to a finite number,
\* and looks up the path unchanged otherwise.
C10_PathRewrittenIffFiniteCount ==
    call.op = "t" =>
        IF CountParsesFinite(call.placeholders)
        THEN call.finalPath =
                 call.path \o getCountSuffix(ToNumber(GetProp(call.placeholders, sCount)))
        ELSE call.finalPath = call.path

\* the middleware body run from candidate i to its binding with no other
\* request in flight
RECURSIVE BoundAlone(_, _)
BoundAlone(langs, i) ==
    IF i > Len(langs)
    THEN NewLanguage(fallbackLanguage, cache[fallbackLanguage])
    ELSE IF ToBoolean(cache[langs[i]])
         THEN NewLanguage(langs[i], cache[langs[i]])
         ELSE BoundAlone(langs, i + 1)

\* C11: when the runs of two requests interleave at their awaits over an
\* unchanging store, every resolved request holds a Language object of its
\* own (no other resolved request refers to the same object), and its
\* languageCode and data are exactly those the run would have bound had it
\* been the only request.
C11_InterleavedRunsIsolated ==
    \A r \in DOMAIN pc :
        Resolved(r) =>
            /\ ctxLang[r] = BoundAlone(languages[r], 1)
            /\ langRef[r] \in 1..allocated
            /\ \A q \in DOMAIN pc \ {r} : Resolved(q) => langRef[q] # langRef[r]

\* both runs are in flight inside next() at once, the second request was
\* bound before the first, one to its candidate "fr" and the other, after
\* two misses, to the fallback "es"
C11_Witness ==
    /\ pc = [r \in ConcurrentRequests |-> "awaitNext"]
    /\ languages["r1"] = <<"en", "en">>
    /\ languages["r2"] = <<"fr">>
    /\ fallbackLanguage = "es"
    /\ cacheGets["r1"] = <<"en", "en", "es">>
    /\ cacheGets["r2"] = <<"fr">>
    /\ langRef["r2"] = 1
    /\ langRef["r1"] = 2
    /\ ctxLang["r1"] = NewLanguage("es", HolaTable)
    /\ ctxLang["r2"] = NewLanguage("fr", HelloTable)

\* path is the file of language code lang: <lang>.json, in a directory or
\* in the working directory
IsLanguageFile(path, lang) ==
    \/ path = lang \o sDotJson
    \/ EndsWith(path, sSlash \o lang \o sDotJson)

\* the keys a call preloadLanguages(folderOrFile) stores under
StoredBy(folderOrFile) ==
    {k \in PreloadKeys :
        preloadLanguages([j \in PreloadKeys |-> NoData], folderOrFile)[k] # NoData}

\* the key a run asks the store for first: its first candidate, or the
\* fallback when it has no candidate
FirstLookup(r) == IF languages[r] = <<>> THEN fallbackLanguage ELSE languages[r][1]

\* C12: when preloadLanguages has stored the table parsed from
\* <dir>/<lang>.json, a middleware run that starts afterwards and whose
\* first candidate (or, without candidates, whose fallback) is <lang> asks
\* the store under the key the preload stored under, and ctx.lang carries
\* the preloaded table.
C12_PreloadedTableBound ==
    \A r \in DOMAIN pc :
        \A i \in 1..seenPreloads[r] :
            \A path \in StoredBy(preloadCalls[i]) :
                (Resolved(r) /\ IsLanguageFile(path, FirstLookup(r)))
                    => /\ cacheGets[r] = <<path>>
                       /\ ctxLang[r].data = FileSystem[path].parsed

====
